---------------------------- MODULE Spec2Model ----------------------------
(***************************************************************************)
(* A model of the PDF-RAG indexing pipeline: the token-window chunker      *)
(* (utils/chunking.py), the batched embedding generator                    *)
(* (utils/embeddings.py), the vector-store client (utils/pinecone_utils.py)*)
(* and the indexing orchestrator (indexer.py).                             *)
(*                                                                         *)
(* A text is the sequence of its tokens (what tokenizer.encode returns),   *)
(* kept as its length and the positions of its whitespace-only tokens.     *)
(* Decoding a token slice gives that slice back, and str.strip() removes   *)
(* the whitespace tokens at both ends.                                     *)
(***************************************************************************)
EXTENDS Integers, Sequences, FiniteSets, TLC

VARIABLES
    call,       \* the frame of the running split_text_into_chunks call
    call2,      \* the frame of a second call with the same arguments
    entropy,    \* the process's source of randomness (what uuid4 or a clock would read)
    emb,        \* the frame of the running generate_embeddings_batch call
    epoch,      \* the embedding service's model version
    corpus,     \* the PDF directory: whether it exists, and its files
    store,      \* the vector store's index: a set of entries (id, values, metadata)
    up,         \* a direct upsert_chunks call: its arguments and its frame
    query,      \* the frame of the running handle_query call
    proc        \* each process's indexing invocation: its position, locals and counters

vars == <<call, call2, entropy, emb, epoch, corpus, store, up, query, proc>>

-----------------------------------------------------------------------------
(* Bounds of the model *)

MaxTokens == 4
MaxSize == 3
MaxOverlap == 3
MaxPage == 2
MaxChunks == 6
MaxBack == 4
ScenarioTokens == 1650
MaxFullBatches == 2
MaxExtra == 2
MaxShift == 2
MaxPagesPerFile == 2
MaxInvocations == 2
MaxMatches == 2

(* Program constants *)

CHUNK_SIZE == 800
CHUNK_OVERLAP == 100
BATCH_SIZE == 100
UPSERT_BATCH_SIZE == 100
TOP_K_RESULTS == 6
\* 0.3: similarity scores are counted in hundredths.
SIMILARITY_THRESHOLD == 30

-----------------------------------------------------------------------------
(* Helpers *)

Min(a, b) == IF a < b THEN a ELSE b
Max(a, b) == IF a > b THEN a ELSE b

\* A text of n tokens; ws is the set of positions (1-based) that hold
\* whitespace-only tokens.
Text(n, ws) == [n |-> n, ws |-> ws]

EmptyText == Text(0, {})

TextsUpTo(n) == UNION {{Text(k, W) : W \in SUBSET (1..k)} : k \in 0..n}

\* The page of the spec's scenario: ScenarioTokens content tokens.
ScenarioText == Text(ScenarioTokens, {})

Filenames == {<<"a", ".pdf">>, <<"b", ".pdf">>, <<"a", ".pdf", ".pdf">>}

\* str.strip() is empty: every token is whitespace.
IsBlank(text) == \A i \in 1..text.n : i \in text.ws

\* Python's index clamping for a slice bound: a negative bound counts from the end.
PyBound(n, i) == IF i < 0 THEN Max(i + n, 0) ELSE Min(i, n)

\* tokens[a:b], decoded
PySlice(text, a, b) ==
    LET lo == PyBound(text.n, a)
        hi == PyBound(text.n, b)
    IN  IF hi <= lo THEN EmptyText
        ELSE Text(hi - lo, {i - lo : i \in {j \in text.ws : lo < j /\ j <= hi}})

\* str.strip(): drop the whitespace tokens at both ends.
Strip(text) ==
    IF IsBlank(text) THEN EmptyText
    ELSE LET first == CHOOSE i \in 1..text.n :
                          i \notin text.ws /\ \A j \in 1..(i - 1) : j \in text.ws
             last  == CHOOSE i \in 1..text.n :
                          i \notin text.ws /\ \A j \in (i + 1)..text.n : j \in text.ws
         IN  PySlice(text, first - 1, last)

-----------------------------------------------------------------------------
(* generate_chunk_id *)

NameCode(part) ==
    CASE part = "a" -> 97
      [] part = "b" -> 98
      [] part = ".pdf" -> 46
      [] OTHER -> 95

RECURSIVE NameHash(_, _)
NameHash(name, mult) ==
    IF name = <<>> THEN 7
    ELSE (mult * NameHash(SubSeq(name, 1, Len(name) - 1), mult)
          + NameCode(name[Len(name)])) % 65536

\* uuid.uuid5(NAMESPACE_DNS, base).hex[:8]: a digest of the base string
\* "{source_pdf}_{page}_{chunk_index}" cut to 32 bits, here as two 16-bit halves.
Uuid5Hex8(source_pdf, page, chunk_index) ==
    << ((NameHash(source_pdf, 31) * 31 + page) * 31 + chunk_index) % 65536,
       ((NameHash(source_pdf, 37) * 37 + page) * 37 + chunk_index) % 65536 >>

\* source_pdf.replace('.pdf', '')
StripPdf(source_pdf) == SelectSeq(source_pdf, LAMBDA part : part # ".pdf")

\* A variant that draws the suffix from the process's randomness (uuid4).
generate_chunk_id_uuid4(source_pdf, page, chunk_index) ==
    [stem |-> StripPdf(source_pdf), p |-> page, c |-> chunk_index,
     suffix |-> <<entropy, entropy>>]

generate_chunk_id(source_pdf, page, chunk_index) ==
    [stem |-> StripPdf(source_pdf), p |-> page, c |-> chunk_index,
     suffix |-> Uuid5Hex8(source_pdf, page, chunk_index)]

-----------------------------------------------------------------------------
(* split_text_into_chunks, one action per step of the function *)

TextChunk(id, text, source_pdf, page, token_count) ==
    [id |-> id, text |-> text, source_pdf |-> source_pdf, page |-> page,
     token_count |-> token_count]

\* No call in progress.
NoCall == [pc |-> "none"]

\* The frame on entry: the arguments, and the locals not yet assigned.
\* windows is the history of the (start_idx, end_idx) pairs the loop visited;
\* chunks and windows record the first MaxChunks entries, overflow says that
\* more were produced.
SplitEnter(text, source_pdf, page, chunk_size, chunk_overlap) ==
    [pc |-> "entry", text |-> text, source_pdf |-> source_pdf, page |-> page,
     chunk_size |-> chunk_size, chunk_overlap |-> chunk_overlap,
     total_tokens |-> text.n, start_idx |-> 0, end_idx |-> 0,
     chunk_index |-> 0, chunks |-> <<>>, windows |-> <<>>, overflow |-> FALSE]

\* Lines 74-93: the empty text, the text that fits one chunk, or the loop's start.
SplitEntry(f) ==
    IF IsBlank(f.text)
    THEN [f EXCEPT !.pc = "done"]
    ELSE IF f.total_tokens <= f.chunk_size
    THEN [f EXCEPT !.pc = "done",
                   !.chunks = << TextChunk(generate_chunk_id(f.source_pdf, f.page, 0),
                                           Strip(f.text), f.source_pdf, f.page,
                                           f.total_tokens) >>,
                   !.windows = << <<0, f.total_tokens>> >>]
    ELSE [f EXCEPT !.pc = "loop"]

\* Line 114: the next window's start.
NextStart(end_idx, chunk_overlap) == end_idx - chunk_overlap

\* Lines 116-118: the guard that ends the loop.
StartStalled(start_idx, end_idx) == start_idx >= end_idx

\* Lines 95-118: one evaluation of the loop condition and, if it holds, one
\* iteration of the body.
LoopIter(f) ==
    IF ~(f.start_idx < f.total_tokens)
    THEN [f EXCEPT !.pc = "done"]
    ELSE LET end_idx      == Min(f.start_idx + f.chunk_size, f.total_tokens)
             chunk_tokens == PySlice(f.text, f.start_idx, end_idx)
             chunk_text   == Strip(chunk_tokens)
             room         == Len(f.windows) < MaxChunks
             emit         == chunk_text # EmptyText
             chunk        == TextChunk(
                                 generate_chunk_id(f.source_pdf, f.page, f.chunk_index),
                                 chunk_text, f.source_pdf, f.page, chunk_tokens.n)
             start_idx    == NextStart(end_idx, f.chunk_overlap)
         IN  [f EXCEPT
                !.end_idx = end_idx,
                !.chunks = IF emit /\ room THEN Append(@, chunk) ELSE @,
                !.chunk_index = IF emit /\ room THEN @ + 1 ELSE @,
                !.windows = IF room THEN Append(@, <<f.start_idx, end_idx>>) ELSE @,
                !.overflow = @ \/ ~room,
                !.start_idx = start_idx,
                !.pc = IF StartStalled(start_idx, end_idx) THEN "done" ELSE "loop"]

\* One step of a call.
SplitStep(f) ==
    CASE f.pc = "entry" -> SplitEntry(f)
      [] f.pc = "loop"  -> LoopIter(f)
      [] OTHER          -> f

\* The model follows start_idx down to -MaxBack and no further.
CanStep(f) == f.pc \in {"entry", "loop"} /\ f.start_idx >= -MaxBack

-----------------------------------------------------------------------------
(* generate_embeddings_batch, one action per request *)

\* The vector the embedding service computes for a text under its current model.
Embedding(text) == [of |-> text, model |-> epoch]

\* The orders in which the service may return the n items of a response:
\* position k holds the item of index (a * (k - 1) + b) % n.  For n <= 3 these
\* are all the permutations.
ResponseOrders(n) ==
    {<<a, b>> : a \in {1, n - 1} \ {0}, b \in 0..Min(n - 1, MaxShift)}

\* client.embeddings.create(input=batch).data: one index-tagged item per text.
ResponseData(batch, order) ==
    [k \in 1..Len(batch) |->
        LET j == (order[1] * (k - 1) + order[2]) % Len(batch)
        IN  [index |-> j, embedding |-> Embedding(batch[j + 1])]]

\* A variant that keeps the response's order.
Unsorted(data) == data

\* sorted(response.data, key=lambda x: x.index); the indexes of a response
\* are distinct, so the order among equal keys does not arise.
SortedByIndex(data) == SortSeq(data, LAMBDA x, y : x.index < y.index)

\* The frame on entry: requests counts the requests sent, sent lists the
\* (first, last) offsets of each batch, shuffled says that some response
\* came back out of input order.
EmbedEnter(texts) ==
    [pc |-> "loop", texts |-> texts, i |-> 0, all_embeddings |-> <<>>,
     requests |-> 0, sent |-> <<>>, shuffled |-> FALSE]

\* Lines 87-102: one iteration, the request answered in the given order.
EmbedBatch(f, order) ==
    LET batch            == SubSeq(f.texts, f.i + 1, Min(f.i + BATCH_SIZE, Len(f.texts)))
        data             == ResponseData(batch, order)
        sorted_data      == SortedByIndex(data)
        batch_embeddings == [k \in 1..Len(sorted_data) |-> sorted_data[k].embedding]
    IN  [f EXCEPT !.all_embeddings = @ \o batch_embeddings,
                  !.i = @ + BATCH_SIZE,
                  !.requests = @ + 1,
                  !.sent = Append(@, <<f.i, f.i + Len(batch)>>),
                  !.shuffled = @ \/ \E k \in 1..Len(data) : data[k].index # k - 1]

\* Lines 94-97: the request raises, and the exception leaves the function.
EmbedRaise(f) ==
    [f EXCEPT !.pc = "raised", !.requests = @ + 1,
              !.sent = Append(@, <<f.i, Min(f.i + BATCH_SIZE, Len(f.texts))>>)]

\* Line 104: the range is exhausted.
EmbedReturn(f) == [f EXCEPT !.pc = "done"]

\* range(0, total_texts, BATCH_SIZE) has another offset.
EmbedMore(f) == f.pc = "loop" /\ f.i < Len(f.texts)

-----------------------------------------------------------------------------
(* load_all_pdfs and extract_text_from_pdf *)

PageContent(filename, page_number, text) ==
    [filename |-> filename, page_number |-> page_number, text |-> text]

PDFDocument(filename, pages) == [filename |-> filename, pages |-> pages]

\* The order of sorted(): filenames compared part by part, a prefix first.
RECURSIVE NameLess(_, _)
NameLess(x, y) ==
    IF y = <<>> THEN FALSE
    ELSE IF x = <<>> THEN TRUE
    ELSE IF NameCode(Head(x)) # NameCode(Head(y))
    THEN NameCode(Head(x)) < NameCode(Head(y))
    ELSE NameLess(Tail(x), Tail(y))

\* sorted(pdf_directory.glob("*.pdf")); the files of a directory differ in name.
RECURSIVE SortedFiles(_)
SortedFiles(files) ==
    IF files = {} THEN <<>>
    ELSE LET first == CHOOSE f \in files :
                          \A g \in files \ {f} : NameLess(f.filename, g.filename)
         IN  <<first>> \o SortedFiles(files \ {first})

\* Lines 43-57: the pages whose stripped text is not empty, numbered from 1
\* by their place in the file.
extract_text_from_pdf(file) ==
    LET stripped == [i \in 1..Len(file.pages) |->
                        PageContent(file.filename, i, Strip(file.pages[i]))]
    IN  PDFDocument(file.filename, SelectSeq(stripped, LAMBDA pg : pg.text # EmptyText))

\* A variant without the try/except: the load ends at the first file whose
\* extraction raises.
load_all_pdfs_stops(dir) ==
    LET pdf_files == SortedFiles(dir.files)
        upto      == IF \A k \in 1..Len(pdf_files) : pdf_files[k].readable
                     THEN Len(pdf_files)
                     ELSE (CHOOSE k \in 1..Len(pdf_files) :
                              /\ ~pdf_files[k].readable
                              /\ \A j \in 1..(k - 1) : pdf_files[j].readable) - 1
    IN  [k \in 1..upto |-> extract_text_from_pdf(pdf_files[k])]

\* Lines 75-91, for a directory that exists: a file whose extraction raises
\* is skipped.
load_all_pdfs(dir) ==
    LET pdf_files == SortedFiles(dir.files)
        loaded    == SelectSeq(pdf_files, LAMBDA f : f.readable)
    IN  [k \in 1..Len(loaded) |-> extract_text_from_pdf(loaded[k])]

-----------------------------------------------------------------------------
(* chunk_page, chunk_document, chunk_documents *)

\* The lists of a list joined in order (by halves, to keep the evaluation shallow).
RECURSIVE Concat(_)
Concat(seqs) ==
    IF seqs = <<>> THEN <<>>
    ELSE IF Len(seqs) = 1 THEN seqs[1]
    ELSE LET half == Len(seqs) \div 2
         IN  Concat(SubSeq(seqs, 1, half)) \o Concat(SubSeq(seqs, half + 1, Len(seqs)))

\* A call run to its return, or to the first step that leaves start_idx where
\* it was: from there the loop repeats that step for ever.
RECURSIVE SplitRun(_)
SplitRun(f) ==
    IF f.pc = "done" THEN f
    ELSE LET g == SplitStep(f)
         IN  IF f.pc = "loop" /\ g.pc = "loop" /\ g.start_idx = f.start_idx
             THEN g
             ELSE SplitRun(g)

\* chunk_page: the call with the default configuration.
chunk_page(page) ==
    SplitRun(SplitEnter(page.text, page.filename, page.page_number,
                        CHUNK_SIZE, CHUNK_OVERLAP))

\* The calls of chunk_documents, page by page.
PageCalls(documents) ==
    LET pages == Concat([d \in 1..Len(documents) |-> documents[d].pages])
    IN  [k \in 1..Len(pages) |-> chunk_page(pages[k])]

\* Every call of chunk_documents returns.
ChunkingReturns(documents) ==
    LET calls == PageCalls(documents)
    IN  \A k \in 1..Len(calls) : calls[k].pc = "done"

chunk_documents(documents) ==
    LET calls == PageCalls(documents)
    IN  Concat([k \in 1..Len(calls) |-> calls[k].chunks])

-----------------------------------------------------------------------------
(* The vector store and upsert_chunks *)

\* describe_index_stats()["total_vector_count"]
StoreCount(s) == Cardinality(s)

\* index.upsert(vectors=batch): each vector replaces the entry of its id.
StoreUpsert(s, batch) ==
    LET ids == {batch[k].id : k \in 1..Len(batch)}
        last(id) == batch[CHOOSE k \in 1..Len(batch) :
                              /\ batch[k].id = id
                              /\ \A j \in (k + 1)..Len(batch) : batch[j].id # id]
    IN  {e \in s : e.id \notin ids} \cup {last(id) : id \in ids}

\* A variant that reports an empty index whatever the count.
is_index_empty_always(s) == TRUE

\* is_index_empty
is_index_empty(s) == StoreCount(s) = 0

\* A variant that gives each vector an id of its own making.
VectorOf_fresh_id(chunk, embedding) ==
    [id |-> [chunk.id EXCEPT !.suffix = <<entropy, entropy>>], values |-> embedding,
     metadata |-> [text |-> chunk.text, source_pdf |-> chunk.source_pdf,
                   page |-> chunk.page]]

\* Lines 135-143: the vector of one chunk.
VectorOf(chunk, embedding) ==
    [id |-> chunk.id, values |-> embedding,
     metadata |-> [text |-> chunk.text, source_pdf |-> chunk.source_pdf,
                   page |-> chunk.page]]

\* A variant without the length check: the vectors of zip(chunks, embeddings).
UpsertEnter_unchecked(chunks, embeddings) ==
    [pc |-> "loop",
     vectors |-> [k \in 1..Min(Len(chunks), Len(embeddings)) |->
                     VectorOf(chunks[k], embeddings[k])],
     i |-> 0, total_upserted |-> 0, requests |-> 0, sent |-> <<>>]

\* Lines 127-146: the length check, then the vectors.
UpsertEnter(chunks, embeddings) ==
    IF Len(chunks) # Len(embeddings)
    THEN [pc |-> "raised", vectors |-> <<>>, i |-> 0, total_upserted |-> 0,
          requests |-> 0, sent |-> <<>>]
    ELSE [pc |-> "loop",
          vectors |-> [k \in 1..Len(chunks) |-> VectorOf(chunks[k], embeddings[k])],
          i |-> 0, total_upserted |-> 0, requests |-> 0, sent |-> <<>>]

\* No upsert_chunks call so far.
NoUpsert == [UpsertEnter(<<>>, <<>>) EXCEPT !.pc = "none"]

\* No direct call of upsert_chunks so far.
NoUpsertCall == [chunks |-> <<>>, embeddings |-> <<>>, store0 |-> {}, f |-> NoUpsert]

\* No handle_query call so far.
NoQuery == [pc |-> "none"]

\* No generate_embeddings_batch call so far.
NoEmbed == [EmbedEnter(<<>>) EXCEPT !.pc = "none"]

\* Line 148: vectors[i:i + UPSERT_BATCH_SIZE]
UpsertBatchOf(f) ==
    SubSeq(f.vectors, f.i + 1, Min(f.i + UPSERT_BATCH_SIZE, Len(f.vectors)))

\* A variant whose next batch starts on the last vector of this one.
UpsertBatch_overlapping(f) ==
    [f EXCEPT !.i = @ + UPSERT_BATCH_SIZE - 1,
              !.total_upserted = @ + Len(UpsertBatchOf(f)),
              !.requests = @ + 1,
              !.sent = Append(@, <<f.i, f.i + Len(UpsertBatchOf(f))>>)]

\* Lines 147-153: one batch sent.
UpsertBatch(f) ==
    [f EXCEPT !.i = @ + UPSERT_BATCH_SIZE,
              !.total_upserted = @ + Len(UpsertBatchOf(f)),
              !.requests = @ + 1,
              !.sent = Append(@, <<f.i, f.i + Len(UpsertBatchOf(f))>>)]

\* Line 149: the request raises, and the exception leaves the function.
UpsertRaise(f) ==
    [f EXCEPT !.pc = "raised", !.requests = @ + 1,
              !.sent = Append(@, <<f.i, f.i + Len(UpsertBatchOf(f))>>)]

\* range(0, len(vectors), UPSERT_BATCH_SIZE) has another offset.
UpsertMore(f) == f.pc = "loop" /\ f.i < Len(f.vectors)

\* zip(chunks, embeddings), and the two lists taken back from the pairs.
Zip(chunks, embeddings) ==
    [k \in 1..Min(Len(chunks), Len(embeddings)) |-> <<chunks[k], embeddings[k]>>]

-----------------------------------------------------------------------------
(* The processes, and the state of one that runs nothing *)

Procs == {"p1", "p2"}

\* A process between invocations, before its first: entry says which function
\* was called, seen and ensure_seen are the vector counts the emptiness checks
\* of run_indexing and ensure_indexed read (-1: not read), loads counts the
\* calls of load_all_pdfs, loaded and chunked say that load_all_pdfs and
\* chunk_documents returned, result is what run_indexing returned, store0 is
\* the store when the invocation began, invocations counts the invocations
\* begun and limit is how many the process makes, indexed_before says that an
\* earlier invocation of this process completed a run that upserted a vector.
ProcStart ==
    [pc |-> "idle", entry |-> "none", force |-> FALSE, seen |-> -1, ensure_seen |-> -1,
     loads |-> 0, loaded |-> FALSE, chunked |-> FALSE, documents |-> <<>>,
     chunks |-> <<>>, emb |-> NoEmbed, up |-> NoUpsert, result |-> "none",
     store0 |-> {}, invocations |-> 0, limit |-> MaxInvocations,
     indexed_before |-> FALSE]

\* A process that takes no part.
ProcOff == [ProcStart EXCEPT !.pc = "off"]

\* No directory is looked at.
NoCorpus == [exists |-> FALSE, files |-> {}]

-----------------------------------------------------------------------------
(* The chunker alone: one call on any small text and configuration, and on *)
(* the scenario page under the default configuration.                      *)

ChunkTexts == TextsUpTo(MaxTokens) \cup {ScenarioText}

ChunkConfigs ==
    ((1..MaxSize) \X (0..MaxOverlap)) \cup {<<CHUNK_SIZE, CHUNK_OVERLAP>>}

InitChunk ==
    /\ \E text \in ChunkTexts, source_pdf \in Filenames, page \in 1..MaxPage,
          cfg \in ChunkConfigs :
          call = SplitEnter(text, source_pdf, page, cfg[1], cfg[2])
    /\ call2 = NoCall
    /\ entropy = 0
    /\ emb = NoCall
    /\ epoch = 0
    /\ corpus = NoCorpus
    /\ up = NoUpsertCall
    /\ query = NoQuery
    /\ store = {}
    /\ proc = [p \in Procs |-> ProcOff]

ChunkEntry ==
    /\ call.pc = "entry"
    /\ call' = SplitEntry(call)
    /\ entropy' = 1 - entropy
    /\ UNCHANGED <<call2, emb, epoch, corpus, up, query, store, proc>>

ChunkLoop ==
    /\ call.pc = "loop"
    /\ CanStep(call)
    /\ call' = LoopIter(call)
    /\ entropy' = 1 - entropy
    /\ UNCHANGED <<call2, emb, epoch, corpus, up, query, store, proc>>

NextChunk == ChunkEntry \/ ChunkLoop

SpecChunk == InitChunk /\ [][NextChunk]_vars

\* The interpreter runs the call's next step whenever there is one.
SpecChunkFair == SpecChunk /\ WF_vars(NextChunk)

-----------------------------------------------------------------------------
(* Two calls with the same source file, page and configuration, stepped in  *)
(* turn; the process's randomness changes between any two steps.           *)

InitDet ==
    /\ \E text \in TextsUpTo(MaxTokens), source_pdf \in Filenames, page \in 1..MaxPage,
          cfg \in (1..MaxSize) \X (0..MaxOverlap) :
          \E text2 \in {text} \cup {Text(k, {}) : k \in 1..MaxTokens} :
              /\ call = SplitEnter(text, source_pdf, page, cfg[1], cfg[2])
              /\ call2 = SplitEnter(text2, source_pdf, page, cfg[1], cfg[2])
    /\ entropy = 0
    /\ emb = NoCall
    /\ epoch = 0
    /\ corpus = NoCorpus
    /\ up = NoUpsertCall
    /\ query = NoQuery
    /\ store = {}
    /\ proc = [p \in Procs |-> ProcOff]

DetFirst ==
    /\ CanStep(call)
    /\ entropy = 0 \/ ~CanStep(call2)
    /\ call' = SplitStep(call)
    /\ entropy' = 1 - entropy
    /\ UNCHANGED <<call2, emb, epoch, corpus, up, query, store, proc>>

DetSecond ==
    /\ CanStep(call2)
    /\ entropy = 1 \/ ~CanStep(call)
    /\ call2' = SplitStep(call2)
    /\ entropy' = 1 - entropy
    /\ UNCHANGED <<call, emb, epoch, corpus, up, query, store, proc>>

NextDet == DetFirst \/ DetSecond

SpecDet == InitDet /\ [][NextDet]_vars

-----------------------------------------------------------------------------
(* The embedding generator alone: one call on lists of up to                *)
(* MaxFullBatches full batches and MaxExtra more texts.                    *)

EmbedSizes == {k * BATCH_SIZE + d : k \in 0..MaxFullBatches, d \in 0..MaxExtra}

\* Lists of distinct texts, and lists that repeat two texts.
EmbedInputs ==
    {[i \in 1..n |-> Text(i, {})] : n \in EmbedSizes}
        \cup {[i \in 1..n |-> Text(1 + (i % 2), {})] : n \in EmbedSizes}

InitEmbed ==
    /\ \E texts \in EmbedInputs : emb = EmbedEnter(texts)
    /\ epoch \in 0..1
    /\ call = NoCall
    /\ call2 = NoCall
    /\ entropy = 0
    /\ corpus = NoCorpus
    /\ up = NoUpsertCall
    /\ query = NoQuery
    /\ store = {}
    /\ proc = [p \in Procs |-> ProcOff]

EmbedRequest ==
    /\ EmbedMore(emb)
    /\ \E order \in ResponseOrders(Min(BATCH_SIZE, Len(emb.texts) - emb.i)) :
          emb' = EmbedBatch(emb, order)
    /\ UNCHANGED <<call, call2, entropy, epoch, corpus, up, query, store, proc>>

EmbedRequestFails ==
    /\ EmbedMore(emb)
    /\ emb' = EmbedRaise(emb)
    /\ UNCHANGED <<call, call2, entropy, epoch, corpus, up, query, store, proc>>

EmbedDone ==
    /\ emb.pc = "loop"
    /\ ~EmbedMore(emb)
    /\ emb' = EmbedReturn(emb)
    /\ UNCHANGED <<call, call2, entropy, epoch, corpus, up, query, store, proc>>

NextEmbed == EmbedRequest \/ EmbedRequestFails \/ EmbedDone

SpecEmbed == InitEmbed /\ [][NextEmbed]_vars

-----------------------------------------------------------------------------
(* Direct calls: a caller runs generate_embeddings_batch on the texts of    *)
(* its chunks and, once that call has returned, upsert_chunks on the       *)
(* chunks and a list of embeddings of the same or another length.          *)

UpsertSizes == {k * UPSERT_BATCH_SIZE + d : k \in 0..MaxFullBatches, d \in 0..MaxExtra}

\* Chunks with the given texts: the first chunks of pages 1, 2, ... of a.pdf.
PageChunks(texts) ==
    [k \in 1..Len(texts) |->
        TextChunk(generate_chunk_id(<<"a", ".pdf">>, k, 0), texts[k],
                  <<"a", ".pdf">>, k, texts[k].n)]

InitCalls == InitEmbed

\* upsert_chunks(chunks, embeddings) up to its loop: lines 127-146.
UpsertCall ==
    /\ emb.pc = "done"
    /\ up.f.pc = "none"
    /\ \E m \in UpsertSizes :
          LET chunks     == PageChunks(emb.texts)
              embeddings == [k \in 1..m |->
                                IF k <= Len(emb.all_embeddings) THEN emb.all_embeddings[k]
                                ELSE Embedding(Text(1, {}))]
          IN  up' = [chunks |-> chunks, embeddings |-> embeddings, store0 |-> store,
                     f |-> UpsertEnter(chunks, embeddings)]
    /\ UNCHANGED <<call, call2, entropy, emb, epoch, corpus, store, query, proc>>

\* Lines 147-153: one batch accepted by the store.
UpsertRequest ==
    /\ UpsertMore(up.f)
    /\ store' = StoreUpsert(store, UpsertBatchOf(up.f))
    /\ up' = [up EXCEPT !.f = UpsertBatch(@)]
    /\ UNCHANGED <<call, call2, entropy, emb, epoch, corpus, query, proc>>

\* Line 149: the request raises.
UpsertRequestFails ==
    /\ UpsertMore(up.f)
    /\ up' = [up EXCEPT !.f = UpsertRaise(@)]
    /\ UNCHANGED <<call, call2, entropy, emb, epoch, corpus, store, query, proc>>

\* Line 155: return total_upserted.
UpsertDone ==
    /\ up.f.pc = "loop"
    /\ ~UpsertMore(up.f)
    /\ up' = [up EXCEPT !.f.pc = "done"]
    /\ UNCHANGED <<call, call2, entropy, emb, epoch, corpus, store, query, proc>>

NextCalls ==
    \/ EmbedRequest
    \/ EmbedRequestFails
    \/ EmbedDone
    \/ UpsertCall
    \/ UpsertRequest
    \/ UpsertRequestFails
    \/ UpsertDone

SpecCalls == InitCalls /\ [][NextCalls]_vars

-----------------------------------------------------------------------------
(* The indexing orchestrator: the process p1 that invokes ensure_indexed or *)
(* run_indexing up to MaxInvocations times over a directory that does not  *)
(* change, against a store that starts empty or with another corpus' entry. *)

\* The raw text of a page: blank, short, or longer than one chunk.
PageTexts == {Text(1, {1}), Text(2, {}), Text(CHUNK_SIZE + 1, {})}

PageLists == UNION {[1..k -> PageTexts] : k \in 0..MaxPagesPerFile}

\* What a directory may hold under one filename: a file whose extraction
\* raises, or a file with its pages.
FileOptions(filename) ==
    {[filename |-> filename, readable |-> FALSE, pages |-> <<>>]}
        \cup {[filename |-> filename, readable |-> TRUE, pages |-> pl] : pl \in PageLists}

Directories ==
    {A \cup B : A \in {{}} \cup {{f} : f \in FileOptions(<<"a", ".pdf">>)},
                B \in {{}} \cup {{f} : f \in FileOptions(<<"b", ".pdf">>)}}

Corpora == {NoCorpus} \cup {[exists |-> TRUE, files |-> d] : d \in Directories}

\* An entry written for page 9 of some other b.pdf.
ForeignEntry ==
    VectorOf(TextChunk(generate_chunk_id(<<"b", ".pdf">>, 9, 0), Text(1, {}),
                       <<"b", ".pdf">>, 9, 1),
             [of |-> Text(1, {}), model |-> 0])

InitIndex ==
    /\ epoch = 0
    /\ entropy = 0
    /\ corpus \in Corpora
    /\ up = NoUpsertCall
    /\ query = NoQuery
    /\ store \in {{}, {ForeignEntry}}
    /\ proc = [p \in Procs |-> IF p = "p1" THEN ProcStart ELSE ProcOff]
    /\ call = NoCall
    /\ call2 = NoCall
    /\ emb = NoCall

\* The function returns (or raises) and the process is between invocations.
Return(f, result) == [f EXCEPT !.pc = "idle", !.result = result]

\* A new invocation: ensure_indexed(), run_indexing() or run_indexing(force=True).
Begin(f, entry, force) ==
    [ProcStart EXCEPT
        !.pc = IF entry = "ensure" THEN "ensure" ELSE "check",
        !.entry = entry,
        !.force = force,
        !.result = "pending",
        !.store0 = store,
        !.invocations = f.invocations + 1,
        !.limit = f.limit,
        !.indexed_before = f.indexed_before
                              \/ (f.result = "True" /\ f.up.total_upserted >= 1)]

Invoke(p) ==
    /\ proc[p].pc = "idle"
    /\ proc[p].invocations < proc[p].limit
    /\ \E kind \in {<<"ensure", FALSE>>, <<"run", FALSE>>, <<"run", TRUE>>} :
          proc' = [proc EXCEPT ![p] = Begin(proc[p], kind[1], kind[2])]
    /\ entropy' = 1 - entropy
    /\ UNCHANGED <<call, call2, emb, epoch, corpus, up, query, store>>

\* ensure_indexed, lines 142-150: run_indexing(pdf_directory) if the index is
\* empty, else a look at the statistics.
EnsureCheck(p) ==
    /\ proc[p].pc = "ensure"
    /\ proc' = [proc EXCEPT ![p] =
          IF is_index_empty(store)
          THEN [@ EXCEPT !.pc = "check", !.ensure_seen = StoreCount(store)]
          ELSE Return([@ EXCEPT !.ensure_seen = StoreCount(store)], "not_run")]
    /\ UNCHANGED <<call, call2, entropy, emb, epoch, corpus, up, query, store>>

\* A variant that skips on an empty index instead.
ShouldSkip_on_empty(force, empty) == ~force /\ empty

\* Line 60: the run is skipped.
ShouldSkip(force, empty) == ~force /\ ~empty

\* run_indexing, lines 53-65: the emptiness check ('not force and ...' reads the
\* statistics only when force is not set).
RunCheck(p) ==
    /\ proc[p].pc = "check"
    /\ proc' = [proc EXCEPT ![p] =
          LET seen == IF proc[p].force THEN -1 ELSE StoreCount(store)
          IN  IF ShouldSkip(proc[p].force, is_index_empty(store))
              THEN Return([@ EXCEPT !.seen = seen], "False")
              ELSE [@ EXCEPT !.pc = "load", !.seen = seen]]
    /\ UNCHANGED <<call, call2, entropy, emb, epoch, corpus, up, query, store>>

\* Line 71: no documents.
NoDocuments(documents) == documents = <<>>

\* run_indexing, lines 67-76: load_all_pdfs, which raises if the directory is
\* missing.
Load(p) ==
    /\ proc[p].pc = "load"
    /\ proc' = [proc EXCEPT ![p] =
          IF ~corpus.exists
          THEN Return([@ EXCEPT !.loads = @ + 1], "raised")
          ELSE LET documents == load_all_pdfs(corpus)
                   f == [@ EXCEPT !.loads = @ + 1, !.loaded = TRUE,
                                  !.documents = documents]
               IN  IF NoDocuments(documents) THEN Return(f, "False")
                   ELSE [f EXCEPT !.pc = "chunk"]]
    /\ UNCHANGED <<call, call2, entropy, emb, epoch, corpus, up, query, store>>

\* A variant that lets an empty chunk list through.
NoChunks_unchecked(chunks) == FALSE

\* Line 82: no chunks.
NoChunks(chunks) == chunks = <<>>

\* run_indexing, lines 78-88: chunk_documents, which does not return if one of
\* its calls does not; then generate_chunk_embeddings takes the chunks' texts.
Chunk(p) ==
    /\ proc[p].pc = "chunk"
    /\ proc' = [proc EXCEPT ![p] =
          IF ~ChunkingReturns(proc[p].documents)
          THEN [@ EXCEPT !.pc = "hung"]
          ELSE LET chunks == chunk_documents(proc[p].documents)
                   f == [@ EXCEPT !.chunked = TRUE, !.chunks = chunks]
               IN  IF NoChunks(chunks) THEN Return(f, "False")
                   ELSE [f EXCEPT !.pc = "embed",
                                  !.emb = EmbedEnter([k \in 1..Len(chunks) |->
                                                         chunks[k].text])]]
    /\ UNCHANGED <<call, call2, entropy, emb, epoch, corpus, up, query, store>>

\* One embedding request of the run answered.
EmbedStep(p) ==
    /\ proc[p].pc = "embed"
    /\ EmbedMore(proc[p].emb)
    /\ \E order \in ResponseOrders(Min(BATCH_SIZE,
                                       Len(proc[p].emb.texts) - proc[p].emb.i)) :
          proc' = [proc EXCEPT ![p].emb = EmbedBatch(@, order)]
    /\ UNCHANGED <<call, call2, entropy, emb, epoch, corpus, up, query, store>>

\* A variant that catches the exception and goes on to the next batch.
EmbedFails_swallowed(p) ==
    /\ proc[p].pc = "embed"
    /\ EmbedMore(proc[p].emb)
    /\ proc' = [proc EXCEPT ![p].emb =
          [@ EXCEPT !.i = @ + BATCH_SIZE, !.requests = @ + 1,
                    !.sent = Append(@, <<proc[p].emb.i,
                                         Min(proc[p].emb.i + BATCH_SIZE,
                                             Len(proc[p].emb.texts))>>)]]
    /\ UNCHANGED <<call, call2, entropy, emb, epoch, corpus, up, query, store>>

\* One embedding request raises: the exception leaves run_indexing.
EmbedFails(p) ==
    /\ proc[p].pc = "embed"
    /\ EmbedMore(proc[p].emb)
    /\ proc' = [proc EXCEPT ![p] = Return([@ EXCEPT !.emb = EmbedRaise(@)], "raised")]
    /\ UNCHANGED <<call, call2, entropy, emb, epoch, corpus, up, query, store>>

\* embeddings.py line 130 and run_indexing lines 90-96: the pairs, the two
\* lists taken back from them, and the entry of upsert_chunks.
EmbedEnd(p) ==
    /\ proc[p].pc = "embed"
    /\ ~EmbedMore(proc[p].emb)
    /\ proc' = [proc EXCEPT ![p] =
          LET done  == EmbedReturn(proc[p].emb)
              pairs == Zip(proc[p].chunks, done.all_embeddings)
              frame == UpsertEnter([k \in 1..Len(pairs) |-> pairs[k][1]],
                                   [k \in 1..Len(pairs) |-> pairs[k][2]])
              f     == [@ EXCEPT !.emb = done, !.up = frame]
          IN  IF frame.pc = "raised" THEN Return(f, "raised")
              ELSE [f EXCEPT !.pc = "upsert"]]
    /\ UNCHANGED <<call, call2, entropy, emb, epoch, corpus, up, query, store>>

\* One upsert request of the run accepted by the store.
UpsertStep(p) ==
    /\ proc[p].pc = "upsert"
    /\ UpsertMore(proc[p].up)
    /\ store' = StoreUpsert(store, UpsertBatchOf(proc[p].up))
    /\ proc' = [proc EXCEPT ![p].up = UpsertBatch(@)]
    /\ UNCHANGED <<call, call2, entropy, emb, epoch, corpus, up, query>>

\* A variant that takes back what the run wrote before the exception leaves.
UpsertFails_rollback(p) ==
    /\ proc[p].pc = "upsert"
    /\ UpsertMore(proc[p].up)
    /\ proc' = [proc EXCEPT ![p] = Return([@ EXCEPT !.up = UpsertRaise(@)], "raised")]
    /\ store' = proc[p].store0
    /\ UNCHANGED <<call, call2, entropy, emb, epoch, corpus, up, query>>

\* One upsert request raises: the exception leaves run_indexing.
UpsertFails(p) ==
    /\ proc[p].pc = "upsert"
    /\ UpsertMore(proc[p].up)
    /\ proc' = [proc EXCEPT ![p] = Return([@ EXCEPT !.up = UpsertRaise(@)], "raised")]
    /\ UNCHANGED <<call, call2, entropy, emb, epoch, corpus, up, query, store>>

\* run_indexing, lines 98-106: the run reports and returns True.
UpsertEnd(p) ==
    /\ proc[p].pc = "upsert"
    /\ ~UpsertMore(proc[p].up)
    /\ proc' = [proc EXCEPT ![p] = Return([@ EXCEPT !.up.pc = "done"], "True")]
    /\ UNCHANGED <<call, call2, entropy, emb, epoch, corpus, up, query, store>>

\* The embedding service changes its model while no invocation is running.
ModelUpdate ==
    /\ \A p \in Procs : proc[p].pc \in {"idle", "off"}
    /\ epoch' = 1 - epoch
    /\ UNCHANGED <<call, call2, entropy, emb, corpus, up, query, store, proc>>

NextIndex ==
    \/ \E p \in Procs :
          \/ Invoke(p)
          \/ EnsureCheck(p)
          \/ RunCheck(p)
          \/ Load(p)
          \/ Chunk(p)
          \/ EmbedStep(p)
          \/ EmbedFails(p)
          \/ EmbedEnd(p)
          \/ UpsertStep(p)
          \/ UpsertFails(p)
          \/ UpsertEnd(p)
    \/ ModelUpdate

SpecIndex == InitIndex /\ [][NextIndex]_vars

-----------------------------------------------------------------------------
(* The indexing orchestrator over a corpus of more chunks than a batch     *)
(* holds: one file of up to MaxFullBatches * 100 + MaxExtra short pages,   *)
(* and a store that starts empty.                                          *)

BulkCorpora ==
    {[exists |-> TRUE,
      files  |-> {[filename |-> <<"a", ".pdf">>, readable |-> TRUE,
                   pages |-> [k \in 1..n |-> Text(2, {})]]}] : n \in UpsertSizes \ {0}}

InitBulk ==
    /\ epoch = 0
    /\ entropy = 0
    /\ corpus \in BulkCorpora
    /\ up = NoUpsertCall
    /\ query = NoQuery
    /\ store = {}
    /\ proc = [p \in Procs |-> IF p = "p1" THEN ProcStart ELSE ProcOff]
    /\ call = NoCall
    /\ call2 = NoCall
    /\ emb = NoCall

SpecBulk == InitBulk /\ [][NextIndex]_vars

-----------------------------------------------------------------------------
(* Two processes that each run the orchestrator once over the same         *)
(* directory against the same store, which starts empty; their steps       *)
(* interleave freely.                                                      *)

\* A file of the directory with the given pages.
PdfFile(filename, pages) == [filename |-> filename, readable |-> TRUE, pages |-> pages]

\* An empty directory, one short file, two files with a blank page among
\* theirs, and a file of one page more than an upsert batch holds.
SharedCorpora ==
    {[exists |-> TRUE, files |-> d] :
        d \in {{},
               {PdfFile(<<"a", ".pdf">>, <<Text(2, {})>>)},
               {PdfFile(<<"a", ".pdf">>, <<Text(1, {1}), Text(2, {})>>),
                PdfFile(<<"b", ".pdf">>, <<Text(2, {})>>)},
               {PdfFile(<<"a", ".pdf">>,
                        [k \in 1..(UPSERT_BATCH_SIZE + 1) |-> Text(2, {})])}}}

InitTwo ==
    /\ epoch = 0
    /\ entropy = 0
    /\ corpus \in SharedCorpora
    /\ up = NoUpsertCall
    /\ query = NoQuery
    /\ store = {}
    /\ proc = [p \in Procs |-> [ProcStart EXCEPT !.limit = 1]]
    /\ call = NoCall
    /\ call2 = NoCall
    /\ emb = NoCall

SpecTwo == InitTwo /\ [][NextIndex]_vars

-----------------------------------------------------------------------------
(* handle_query, one action per call it makes *)

RetrievedChunk(id, text, source_pdf, page, score) ==
    [id |-> id, text |-> text, source_pdf |-> source_pdf, page |-> page, score |-> score]

Source(pdf_name, page) == [pdf_name |-> pdf_name, page |-> page]

\* The scores a match may carry, in hundredths: around the threshold and at
\* the ends of the cosine range.
Scores ==
    {-100, 0, SIMILARITY_THRESHOLD - 1, SIMILARITY_THRESHOLD, SIMILARITY_THRESHOLD + 1, 100}

\* What index.query may answer for top_k: up to top_k matches (MaxMatches at
\* most here), each the first chunk of a page of a.pdf with some score.
Retrievals(top_k) ==
    LET matches == {RetrievedChunk(generate_chunk_id(<<"a", ".pdf">>, pg, 0), Text(2, {}),
                                   <<"a", ".pdf">>, pg, sc) : pg \in 1..MaxPage, sc \in Scores}
    IN  UNION {[1..n -> matches] : n \in 0..Min(top_k, MaxMatches)}

\* max(chunk.score for chunk in chunks), for a non-empty list.
RECURSIVE best_score(_)
best_score(chunks) ==
    IF Len(chunks) = 1 THEN chunks[1].score
    ELSE Max(chunks[1].score, best_score(Tail(chunks)))

\* A variant that asks for a score above the threshold.
check_retrieval_quality_strict(chunks) ==
    IF chunks = <<>> THEN FALSE ELSE best_score(chunks) > SIMILARITY_THRESHOLD

\* check_retrieval_quality
check_retrieval_quality(chunks) ==
    IF chunks = <<>> THEN FALSE ELSE best_score(chunks) >= SIMILARITY_THRESHOLD

\* extract_sources: the (source_pdf, page) pairs in order of first occurrence.
RECURSIVE extract_sources(_)
extract_sources(chunks) ==
    IF chunks = <<>> THEN <<>>
    ELSE LET front == SubSeq(chunks, 1, Len(chunks) - 1)
             chunk == chunks[Len(chunks)]
             seen  == {<<front[k].source_pdf, front[k].page>> : k \in 1..Len(front)}
         IN  IF <<chunk.source_pdf, chunk.page>> \in seen
             THEN extract_sources(front)
             ELSE Append(extract_sources(front), Source(chunk.source_pdf, chunk.page))

\* The frame on entry: gated says that the gate was evaluated and usable what
\* it returned; llm_clients counts the calls of get_groq_client, llm_requests
\* the chat completion requests; error names the call whose exception left
\* the function.
QueryEnter(question) ==
    [pc |-> "embed", question |-> question, chunks |-> <<>>, gated |-> FALSE,
     usable |-> FALSE, answer |-> "none", sources |-> <<>>, llm_clients |-> 0,
     llm_requests |-> 0, error |-> "none"]

Questions == {"q1", "q2"}

InitQuery ==
    /\ query \in {QueryEnter(question) : question \in Questions}
    /\ call = NoCall
    /\ call2 = NoCall
    /\ entropy = 0
    /\ emb = NoCall
    /\ epoch = 0
    /\ corpus = NoCorpus
    /\ up = NoUpsertCall
    /\ store = {}
    /\ proc = [p \in Procs |-> ProcOff]

\* Line 152: generate_query_embedding(question) returns.
QueryEmbed ==
    /\ query.pc = "embed"
    /\ query' = [query EXCEPT !.pc = "retrieve"]
    /\ UNCHANGED <<call, call2, entropy, emb, epoch, corpus, up, store, proc>>

\* Line 152: the embedding request raises.
QueryEmbedFails ==
    /\ query.pc = "embed"
    /\ query' = [query EXCEPT !.pc = "raised", !.error = "embedding"]
    /\ UNCHANGED <<call, call2, entropy, emb, epoch, corpus, up, store, proc>>

\* Line 155: query_similar_chunks(query_embedding, top_k=TOP_K_RESULTS) returns.
QueryRetrieve ==
    /\ query.pc = "retrieve"
    /\ \E chunks \in Retrievals(TOP_K_RESULTS) :
          query' = [query EXCEPT !.pc = "gate", !.chunks = chunks]
    /\ UNCHANGED <<call, call2, entropy, emb, epoch, corpus, up, store, proc>>

\* Line 155: the store's query raises.
QueryRetrieveFails ==
    /\ query.pc = "retrieve"
    /\ query' = [query EXCEPT !.pc = "raised", !.error = "store"]
    /\ UNCHANGED <<call, call2, entropy, emb, epoch, corpus, up, store, proc>>

\* A variant that generates an answer whatever the gate says.
QueryGate_ungated ==
    /\ query.pc = "gate"
    /\ query' = [query EXCEPT !.pc = "generate", !.gated = TRUE,
                              !.usable = check_retrieval_quality(query.chunks),
                              !.sources = extract_sources(query.chunks)]
    /\ UNCHANGED <<call, call2, entropy, emb, epoch, corpus, up, store, proc>>

\* Lines 157-167: the gate; the fixed answer and no sources, or the sources
\* of the chunks.
QueryGate ==
    /\ query.pc = "gate"
    /\ query' =
          IF ~check_retrieval_quality(query.chunks)
          THEN [query EXCEPT !.pc = "returned", !.gated = TRUE, !.usable = FALSE,
                             !.answer = "not_found", !.sources = <<>>]
          ELSE [query EXCEPT !.pc = "generate", !.gated = TRUE, !.usable = TRUE,
                             !.sources = extract_sources(query.chunks)]
    /\ UNCHANGED <<call, call2, entropy, emb, epoch, corpus, up, store, proc>>

\* Lines 170-178: get_groq_client and generate_answer return.
QueryGenerate ==
    /\ query.pc = "generate"
    /\ query' = [query EXCEPT !.pc = "returned", !.answer = "generated",
                              !.llm_clients = @ + 1, !.llm_requests = @ + 1]
    /\ UNCHANGED <<call, call2, entropy, emb, epoch, corpus, up, store, proc>>

\* Lines 170-176: get_groq_client raises (no API key), or the chat completion
\* request does.
QueryGenerateFails ==
    /\ query.pc = "generate"
    /\ \/ query' = [query EXCEPT !.pc = "raised", !.error = "llm_client",
                                 !.llm_clients = @ + 1]
       \/ query' = [query EXCEPT !.pc = "raised", !.error = "llm",
                                 !.llm_clients = @ + 1, !.llm_requests = @ + 1]
    /\ UNCHANGED <<call, call2, entropy, emb, epoch, corpus, up, store, proc>>

NextQuery ==
    \/ QueryEmbed
    \/ QueryEmbedFails
    \/ QueryRetrieve
    \/ QueryRetrieveFails
    \/ QueryGate
    \/ QueryGenerate
    \/ QueryGenerateFails

SpecQuery == InitQuery /\ [][NextQuery]_vars

-----------------------------------------------------------------------------
(* Properties of the chunker *)

\* The configuration is valid: 0 <= chunk_overlap < chunk_size.
ValidConfig(f) == 0 <= f.chunk_overlap /\ f.chunk_overlap < f.chunk_size

\* A non-empty page with more tokens than one chunk holds.
MultiWindow(f) == ~IsBlank(f.text) /\ f.total_tokens > f.chunk_size

\* The token positions a slice tokens[a:b] takes.
Span(n, w) == {k \in 0..(n - 1) : PyBound(n, w[1]) <= k /\ k < PyBound(n, w[2])}

\* The token positions inside some visited window.
Covered(f) == UNION {Span(f.total_tokens, f.windows[i]) : i \in 1..Len(f.windows)}

\* C1: for every non-empty page with more tokens than chunk_size and every
\* configuration with 0 <= chunk_overlap < chunk_size, the call terminates
\* (it reaches its return statement).
C1_Terminates ==
    (MultiWindow(call) /\ ValidConfig(call)) => <>(call.pc = "done")

\* C2: for a page of T > chunk_size tokens the windows start exactly at
\* 0, s, 2s, ... with s = chunk_size - chunk_overlap and no window follows the
\* first one whose end reaches T; the scenario page under the defaults yields
\* no more than the three chunks of 800, 800 and the remainder.
C2_WindowOffsets ==
    (MultiWindow(call) /\ ValidConfig(call) /\ call.pc \in {"loop", "done"}) =>
        LET s == call.chunk_size - call.chunk_overlap
            w == call.windows
            T == call.total_tokens
        IN  /\ \A i \in 1..Len(w) : w[i][1] = (i - 1) * s
            /\ \A i \in 1..Len(w) : w[i][2] = T => i = Len(w)
            /\ (T = ScenarioTokens /\ call.chunk_size = CHUNK_SIZE
                    /\ call.chunk_overlap = CHUNK_OVERLAP) =>
                   /\ Len(call.chunks) <= 3
                   /\ \A i \in 1..Len(call.chunks) :
                         call.chunks[i].token_count =
                             IF i < 3 THEN CHUNK_SIZE
                             ELSE ScenarioTokens - 2 * (CHUNK_SIZE - CHUNK_OVERLAP)

\* C3: every chunk of the list has token_count <= chunk_size, and every chunk
\* except the last has token_count exactly chunk_size.
C3_ChunkSizeBound ==
    ValidConfig(call) =>
        \A i \in 1..Len(call.chunks) :
            /\ call.chunks[i].token_count <= call.chunk_size
            /\ i < Len(call.chunks) => call.chunks[i].token_count = call.chunk_size

\* C4: for every page and every configuration with chunk_size >= 1 and
\* chunk_overlap >= 0, the windows the call visited cover every token position
\* of the page when the call returns (a page that is empty after stripping is
\* one empty window).
C4_Coverage ==
    (call.pc = "done" /\ ~IsBlank(call.text)) =>
        Covered(call) = 0..(call.total_tokens - 1)

\* The two calls have taken the same number of steps.
InStep(f, g) == entropy = 0 \/ (~CanStep(f) /\ ~CanStep(g))

\* C5: two calls with the same text, source file, page and configuration build
\* the same list, chunk by chunk (text, token_count and id); and whatever the
\* texts, the chunks at the same position of the same file and page carry the
\* same id.
C5_Deterministic ==
    /\ (call.text = call2.text /\ InStep(call, call2)) =>
           /\ call.pc = call2.pc
           /\ call.chunks = call2.chunks
    /\ \A i \in 1..Min(Len(call.chunks), Len(call2.chunks)) :
           call.chunks[i].id = call2.chunks[i].id

\* Both calls, on the same text, have produced more than one chunk.
C5_Witness ==
    /\ call.text = call2.text
    /\ Len(call.chunks) >= 2
    /\ Len(call2.chunks) >= 2

\* C6: for any list of N texts, N beyond the batch size included, and any
\* order in which the service returns each batch's items, the call returns N
\* vectors and the i-th is the embedding of texts[i].
C6_OrderPreserved ==
    emb.pc \in {"loop", "done"} =>
        /\ \A i \in 1..Len(emb.all_embeddings) :
               emb.all_embeddings[i] = Embedding(emb.texts[i])
        /\ emb.pc = "done" => Len(emb.all_embeddings) = Len(emb.texts)

\* A call on more than one batch has returned after a response out of order.
C6_Witness ==
    /\ emb.pc = "done"
    /\ Len(emb.texts) > BATCH_SIZE
    /\ emb.shuffled

\* C15: with chunk_overlap >= chunk_size and a non-empty page of more tokens
\* than chunk_size, the call notices that the window start does not advance
\* and terminates (it reaches its return statement).
C15_StopsWhenStalled ==
    (MultiWindow(call) /\ call.chunk_overlap >= call.chunk_size) =>
        <>(call.pc = "done")

-----------------------------------------------------------------------------
(* Properties of the indexing orchestrator *)

\* C7: when run_indexing is called with force = False and the emptiness check
\* reads a vector count above zero, the run returns False at that check, with
\* no call of load_all_pdfs, no embedding request and no upsert request, and
\* the store is as it was when the run began.
C7_SkipWhenPopulated ==
    \A p \in Procs :
        LET f == proc[p]
        IN  (~f.force /\ f.seen > 0) =>
                /\ f.pc = "idle"
                /\ f.result = "False"
                /\ f.loads = 0
                /\ f.emb.requests = 0
                /\ f.up.requests = 0
                /\ store = f.store0

\* A direct call of run_indexing() has met a populated store and returned.
C7_Witness ==
    \E p \in Procs :
        /\ proc[p].entry = "run"
        /\ ~proc[p].force
        /\ proc[p].seen > 0
        /\ proc[p].pc = "idle"

\* C8: when load_all_pdfs returns no documents, or chunk_documents returns no
\* chunks, run_indexing returns False and has sent no embedding request and
\* no upsert request.
C8_EarlyEnd ==
    \A p \in Procs :
        LET f == proc[p]
        IN  ((f.loaded /\ f.documents = <<>>) \/ (f.chunked /\ f.chunks = <<>>)) =>
                /\ f.pc = "idle"
                /\ f.result = "False"
                /\ f.emb.requests = 0
                /\ f.up.requests = 0

\* Documents were loaded, all of their pages blank, and chunking gave nothing.
C8_Witness ==
    \E p \in Procs :
        /\ proc[p].chunked
        /\ proc[p].documents # <<>>
        /\ proc[p].chunks = <<>>
        /\ proc[p].result = "False"

\* C9: ensure_indexed goes on to run_indexing only when it read a vector count
\* of zero, and then without force; and once an invocation of the process has
\* completed a run that upserted at least one vector, an ensure_indexed
\* invocation loads nothing and sends no embedding request and no upsert
\* request.
C9_EnsureOnlyWhenEmpty ==
    \A p \in Procs :
        LET f == proc[p]
        IN  /\ (f.entry = "ensure" /\ f.pc # "ensure") =>
                  /\ ~f.force
                  /\ f.ensure_seen >= 0
                  /\ (f.result = "not_run") = (f.ensure_seen > 0)
            /\ (f.entry = "ensure" /\ f.indexed_before) =>
                  /\ f.loads = 0
                  /\ f.emb.requests = 0
                  /\ f.up.requests = 0

\* ensure_indexed indexed the corpus, and a later ensure_indexed has returned.
C9_Witness ==
    \E p \in Procs :
        /\ proc[p].entry = "ensure"
        /\ proc[p].indexed_before
        /\ proc[p].pc = "idle"
        /\ proc[p].result = "not_run"
        /\ store # {}

\* The chunks whose vectors the requests of upsert_chunks have carried so far.
Written(f) == 1..Min(f.up.i, Len(f.up.vectors))

\* C10: during and after an upsert_chunks call, the store holds exactly one
\* entry under the id of each chunk written so far, with that chunk's
\* embedding and metadata of this call (whatever an earlier call wrote under
\* the id), and the store has one entry per id: those it had when the run
\* began and those written, an id in both counted once.
C10_UpsertIdempotent ==
    \A p \in Procs :
        LET f == proc[p]
        IN  f.up.pc \in {"loop", "done"} =>
                /\ \A k \in Written(f) :
                      LET under == {e \in store : e.id = f.chunks[k].id}
                      IN  under = {[id       |-> f.chunks[k].id,
                                    values   |-> f.emb.all_embeddings[k],
                                    metadata |-> [text       |-> f.chunks[k].text,
                                                  source_pdf |-> f.chunks[k].source_pdf,
                                                  page       |-> f.chunks[k].page]]}
                /\ Cardinality(store) =
                      Cardinality({e.id : e \in f.store0}
                                     \cup {f.chunks[k].id : k \in Written(f)})

\* A forced run over the same corpus has rewritten an id with another vector,
\* and the store has as many entries as before the run.
C10_Witness ==
    \E p \in Procs :
        LET f == proc[p]
        IN  /\ f.force
            /\ f.up.pc = "done"
            /\ \E k \in Written(f) :
                  \E e \in f.store0 : /\ e.id = f.chunks[k].id
                                      /\ e.values # f.emb.all_embeddings[k]
            /\ Cardinality(store) = Cardinality(f.store0)

\* The files of the directory whose extraction succeeds.
Extractable(dir) == {file \in dir.files : file.readable}

\* C16: load_all_pdfs fails only for a missing directory; otherwise it returns
\* one document per file whose extraction succeeds, in increasing filename
\* order, whatever files raised in between; a document holds exactly the pages
\* of its file whose stripped text is not empty, in page order, each with its
\* stripped text and its 1-based place in the file as page number.
C16_LoadIsolatesFailures ==
    \A p \in Procs :
        LET f    == proc[p]
            docs == f.documents
        IN  /\ (f.loads > 0 /\ proc[p].pc # "load") => (f.loaded = corpus.exists)
            /\ (f.loads > 0 /\ ~corpus.exists) => f.result = "raised"
            /\ f.loaded =>
                  /\ Len(docs) = Cardinality(Extractable(corpus))
                  /\ \A k \in 1..(Len(docs) - 1) :
                        NameLess(docs[k].filename, docs[k + 1].filename)
                  /\ \A k \in 1..Len(docs) :
                        \E file \in Extractable(corpus) :
                            LET pages == docs[k].pages
                            IN  /\ file.filename = docs[k].filename
                                /\ \A i \in 1..Len(file.pages) :
                                      (Strip(file.pages[i]) # EmptyText)
                                         = (\E j \in 1..Len(pages) : pages[j].page_number = i)
                                /\ \A j \in 1..Len(pages) :
                                      /\ pages[j].page_number \in 1..Len(file.pages)
                                      /\ pages[j].text = Strip(file.pages[pages[j].page_number])
                                      /\ pages[j].filename = file.filename
                                /\ \A j \in 1..(Len(pages) - 1) :
                                      pages[j].page_number < pages[j + 1].page_number

\* The first file of the directory raised, the second was loaded, and its
\* only kept page is its second.
C16_Witness ==
    \E p \in Procs :
        /\ proc[p].loaded
        /\ \E file \in corpus.files : ~file.readable /\ file.filename = <<"a", ".pdf">>
        /\ Len(proc[p].documents) = 1
        /\ Len(proc[p].documents[1].pages) = 1
        /\ proc[p].documents[1].pages[1].page_number = 2

-----------------------------------------------------------------------------
(* Properties of the direct calls *)

\* C11: a call of upsert_chunks with len(chunks) # len(embeddings) raises at
\* its length check: it has sent no request and the store is as it was at the
\* call.
C11_LengthCheckFirst ==
    (up.f.pc # "none" /\ Len(up.chunks) # Len(up.embeddings)) =>
        /\ up.f.pc = "raised"
        /\ up.f.requests = 0
        /\ store = up.store0

\* A call with chunks and fewer embeddings, more than a batch of each, raised.
C11_Witness ==
    /\ up.f.pc = "raised"
    /\ Len(up.embeddings) > UPSERT_BATCH_SIZE
    /\ Len(up.chunks) > Len(up.embeddings)
    /\ up.f.requests = 0

\* ceil(n / size)
CeilDiv(n, size) == (n + size - 1) \div size

\* The requests of a call on n items took, in order, the slices
\* [0, size), [size, 2 size), ... of the input, none empty, none past n.
InOrderSlices(sent, n, size) ==
    \A r \in 1..Len(sent) :
        /\ sent[r][1] = (r - 1) * size
        /\ sent[r][2] = Min(r * size, n)
        /\ sent[r][1] < sent[r][2]
        /\ sent[r][2] - sent[r][1] <= 100

\* C17: the requests of generate_embeddings_batch and of upsert_chunks carry at
\* most 100 items each and take the input slice by slice in order; a call on
\* n items that returns has sent ceil(n / 100) requests whose slices end at n,
\* none for n = 0; and upsert_chunks then returns n.
C17_BatchesPartition ==
    /\ emb.pc \in {"loop", "done", "raised"} =>
          /\ Len(emb.sent) = emb.requests
          /\ InOrderSlices(emb.sent, Len(emb.texts), BATCH_SIZE)
          /\ emb.pc = "done" =>
                /\ emb.requests = CeilDiv(Len(emb.texts), 100)
                /\ emb.requests > 0 => emb.sent[emb.requests][2] = Len(emb.texts)
    /\ (up.f.pc \in {"loop", "done", "raised"} /\ Len(up.chunks) = Len(up.embeddings)) =>
          /\ Len(up.f.sent) = up.f.requests
          /\ InOrderSlices(up.f.sent, Len(up.chunks), UPSERT_BATCH_SIZE)
          /\ up.f.pc = "done" =>
                /\ up.f.requests = CeilDiv(Len(up.chunks), 100)
                /\ up.f.requests > 0 => up.f.sent[up.f.requests][2] = Len(up.chunks)
                /\ up.f.total_upserted = Len(up.chunks)

\* Both calls returned, each after a last request smaller than a batch.
C17_Witness ==
    /\ emb.pc = "done"
    /\ Len(emb.texts) > BATCH_SIZE
    /\ Len(emb.texts) % BATCH_SIZE # 0
    /\ up.f.pc = "done"
    /\ Len(up.chunks) > UPSERT_BATCH_SIZE
    /\ Len(up.chunks) % UPSERT_BATCH_SIZE # 0

-----------------------------------------------------------------------------
(* Properties of the orchestrator over a corpus of several batches *)

\* C12: in a run of run_indexing an upsert request is sent only after the
\* embedding call returned with one embedding per chunk of the corpus, every
\* batch answered; and if an embedding request raised, whichever batch it
\* was, the run ended with the exception, sent no upsert request and left
\* the store as it was when the run began.
C12_EmbedAllBeforeUpsert ==
    \A p \in Procs :
        LET f == proc[p]
        IN  /\ f.up.requests > 0 =>
                  /\ f.emb.pc = "done"
                  /\ Len(f.emb.all_embeddings) = Len(f.chunks)
                  /\ f.emb.requests = CeilDiv(Len(f.chunks), BATCH_SIZE)
            /\ f.emb.pc = "raised" =>
                  /\ f.pc = "idle"
                  /\ f.result = "raised"
                  /\ f.up.pc = "none"
                  /\ f.up.requests = 0
                  /\ store = f.store0

\* The embedding request of a later batch than the first raised.
C12_Witness ==
    \E p \in Procs :
        /\ proc[p].emb.pc = "raised"
        /\ proc[p].emb.requests >= 2
        /\ Len(proc[p].emb.all_embeddings) >= BATCH_SIZE
        /\ proc[p].result = "raised"

\* The chunks of the whole corpus.
CorpusChunks == chunk_documents(load_all_pdfs(corpus))

\* C19: when the upsert request of a batch after the first raises, the run
\* ends with the exception, the vectors of the batches before it are in the
\* store and no vector of that batch or a later one was written by the run;
\* and an invocation without force that finds the store non-empty
\* (ensure_indexed, or run_indexing with force = False) loads nothing and
\* leaves the store as it found it, so the rest of the corpus stays out.
C19_PartialUpsertStays ==
    \A p \in Procs :
        LET f == proc[p]
        IN  /\ (f.up.pc = "raised" /\ f.up.requests >= 2) =>
                  /\ f.result = "raised"
                  /\ f.up.i = (f.up.requests - 1) * UPSERT_BATCH_SIZE
                  /\ \A j \in 1..f.up.i : f.up.vectors[j] \in store
                  /\ \A j \in (f.up.i + 1)..Len(f.up.vectors) :
                        f.up.vectors[j] \in store => f.up.vectors[j] \in f.store0
                  /\ store # {}
            /\ (f.invocations >= 1 /\ ~f.force /\ f.pc \notin {"ensure", "check"}
                  /\ f.store0 # {}) =>
                  /\ f.pc = "idle"
                  /\ f.result \in {"False", "not_run"}
                  /\ f.loads = 0
                  /\ f.emb.requests = 0
                  /\ f.up.requests = 0
                  /\ store = f.store0

\* After a run that failed part-way, ensure_indexed has skipped and the store
\* holds fewer entries than the corpus has chunks.
C19_Witness ==
    \E p \in Procs :
        /\ proc[p].invocations >= 2
        /\ ~proc[p].indexed_before
        /\ proc[p].entry = "ensure"
        /\ proc[p].pc = "idle"
        /\ proc[p].result = "not_run"
        /\ Cardinality(store) >= UPSERT_BATCH_SIZE
        /\ Cardinality(store) < Len(CorpusChunks)

-----------------------------------------------------------------------------
(* Properties of two processes on one store *)

\* Each process has made one invocation and it returned without an exception.
BothCompleted ==
    \A p \in Procs :
        /\ proc[p].invocations = 1
        /\ proc[p].pc = "idle"
        /\ proc[p].result \in {"True", "False", "not_run"}

\* C18: when two processes have each run the orchestrator once over the same
\* corpus against the store that started empty, and both returned, the store
\* holds exactly one entry for each chunk id of the corpus and no other
\* entry, and each entry has the text, source filename and page of its chunk.
C18_OneEntryPerChunk ==
    BothCompleted =>
        LET chunks == CorpusChunks
        IN  /\ {e.id : e \in store} = {chunks[k].id : k \in 1..Len(chunks)}
            /\ Cardinality(store) = Len(chunks)
            /\ \A e \in store :
                  \E k \in 1..Len(chunks) :
                      /\ e.id = chunks[k].id
                      /\ e.metadata = [text       |-> chunks[k].text,
                                       source_pdf |-> chunks[k].source_pdf,
                                       page       |-> chunks[k].page]

\* Both processes found the store empty and both upserted the whole corpus,
\* which takes more than one batch.
C18_Witness ==
    /\ BothCompleted
    /\ \A p \in Procs : proc[p].result = "True" /\ proc[p].seen = 0
    /\ Len(CorpusChunks) > UPSERT_BATCH_SIZE

-----------------------------------------------------------------------------
(* Properties of handle_query *)

\* C13: the gate reports usable evidence exactly when the list of retrieved
\* chunks is not empty and some score in it, hence the best, is at least the
\* threshold: a best score equal to the threshold is usable, a best score
\* below it is not, and an empty list is not.
C13_GateInclusive ==
    query.gated =>
        LET scores == {query.chunks[k].score : k \in 1..Len(query.chunks)}
        IN  /\ query.usable = (\E sc \in scores : sc >= SIMILARITY_THRESHOLD)
            /\ scores = {} => ~query.usable
            /\ (SIMILARITY_THRESHOLD \in scores) => query.usable
            /\ (\A sc \in scores : sc < SIMILARITY_THRESHOLD) => ~query.usable

\* The best of several scores equals the threshold and the gate said usable.
C13_Witness ==
    /\ query.gated
    /\ query.usable
    /\ Len(query.chunks) >= 2
    /\ \A k \in 1..Len(query.chunks) : query.chunks[k].score <= SIMILARITY_THRESHOLD
    /\ \E k \in 1..Len(query.chunks) : query.chunks[k].score < SIMILARITY_THRESHOLD

\* C14: once the gate has reported insufficient evidence, handle_query has
\* returned the fixed not-found answer with no sources, without a call of
\* get_groq_client and without a chat completion request; and a call that
\* returned raised no exception, while a call whose embedding, store or LLM
\* call raised returned no answer.
C14_NoGenerationWithoutEvidence ==
    /\ (query.gated /\ ~query.usable) =>
          /\ query.pc = "returned"
          /\ query.answer = "not_found"
          /\ query.sources = <<>>
          /\ query.llm_clients = 0
          /\ query.llm_requests = 0
    /\ query.pc = "returned" => query.error = "none"
    /\ query.pc = "raised" =>
          /\ query.error \in {"embedding", "store", "llm_client", "llm"}
          /\ query.answer = "none"

\* Chunks were retrieved, none good enough, and the fixed answer returned.
C14_Witness ==
    /\ query.gated
    /\ ~query.usable
    /\ query.chunks # <<>>
    /\ query.pc = "returned"
    /\ query.answer = "not_found"

=============================================================================
